---- MODULE Spec2Model ----
(***************************************************************************)
(* Model of the email-to-CRM agent of src/email_processing_agent.py: the   *)
(* tool-calling loop EmailProcessingAgent._call_ai_with_tools, the tool    *)
(* dispatcher CRMTools.call_tool and the two clients it reflects over.     *)
(* The LLM, the CRM and the mail service are the environment: every        *)
(* response they can give is a nondeterministic choice.                    *)
(***************************************************************************)
EXTENDS Integers, Sequences, FiniteSets, TLC

\* ------------------------------------------------------------------------
\* Bounds of the model
\* ------------------------------------------------------------------------
\* Largest number of tool calls the LLM puts in one response.
MaxBatch == 2
\* Largest number of tool calls the LLM issues while one email is processed
\* (under run(): while one mailbox is).
MaxCalls == 5
\* Largest number of faults while one email or mailbox is processed: tool calls that are
\* not the well-formed lookup, and client methods that raise.
MaxFaults == 2
\* Largest number of calls of call_tool made from outside the loop.
MaxDispatches == 2
\* Largest number of operations run directly on the mail client.
MaxMailOps == 4
\* Largest number of emails one run of main_workflow.main fetches.
MaxFetch == 2
\* Largest number of CRM pushes made from the dashboard.
MaxPushes == 3
\* Largest number of items the archive file is let grow to.
MaxArchive == 3
\* Largest number of requests made to the CRM.
MaxCrmCalls == 2

\* ------------------------------------------------------------------------
\* Program constants
\* ------------------------------------------------------------------------
\* self.max_depth = 4
max_depth == 4

Providers == {"openai", "gemini"}

\* Python's None, and the absence of a key in a message dict.
None == "None"

\* ------------------------------------------------------------------------
\* JSON values and json.dumps / json.loads
\* ------------------------------------------------------------------------
\* A JSON value: its Python type, the keys of a dict, and the value of the
\* "error" key when the dict has one.
JDict(keys) == [t |-> "dict", keys |-> keys, error |-> None]
JError(message) == [t |-> "dict", keys |-> {"error"}, error |-> message]
JNull == [t |-> "null", keys |-> {}, error |-> None]
JList == [t |-> "list", keys |-> {}, error |-> None]

\* json.dumps: the text of a JSON value.
json_dumps(v) ==
    CASE v.t = "null" -> "null"
      [] v.t = "list" -> "[]"
      [] v.t = "dict" /\ v.keys = {} -> "{}"
      [] v.t = "dict" /\ v.keys = {"error"} -> "{\"error\": \"" \o v.error \o "\"}"
      [] v.t = "dict" /\ v.keys = {"email"} -> "{\"email\": \"a@x.com\"}"
      [] v.t = "dict" /\ v.keys = {"people"} -> "{\"people\": []}"
      [] v.t = "dict" /\ v.keys = {"email_id"} -> "{\"email_id\": \"m\"}"
      [] OTHER -> "{\"?\": 0}"

\* The messages of the exceptions the dispatcher can see.
NotFoundMessage(tool_name) == "Tool '" \o tool_name \o "' not found."
TypeErrorMessage(tool_name) == tool_name \o "() got bad arguments"
HTTPErrorMessage == "500 Server Error"

ToolNames ==
    {"get_person_by_email", "get_unread_emails", "mark_email_processed",
     "no_such_tool"}

ErrorMessages ==
    {NotFoundMessage(n) : n \in ToolNames} \cup
    {TypeErrorMessage(n) : n \in ToolNames} \cup {HTTPErrorMessage}

JsonValues ==
    {JNull, JList, JDict({}), JDict({"email"}), JDict({"email_id"}),
     JDict({"people"})} \cup
    {JError(m) : m \in ErrorMessages}

\* json.loads: ok is FALSE when the text is not JSON (json.JSONDecodeError).
json_loads(text) ==
    IF \E v \in JsonValues : json_dumps(v) = text
    THEN [ok |-> TRUE, value |-> CHOOSE v \in JsonValues : json_dumps(v) = text]
    ELSE [ok |-> FALSE, value |-> JNull]

\* ------------------------------------------------------------------------
\* The clients CRMTools reflects over: attribute name -> keyword parameters
\* ------------------------------------------------------------------------
TwentyCRMAPI ==
    ("__init__" :> [required |-> {"base_url", "api_key"}, optional |-> {}]) @@
    [get_person_by_email |-> [required |-> {"email"}, optional |-> {}]]

MSGraphClient ==
    ("__init__" :> [required |-> {"client_id", "authority", "scope"},
                    optional |-> {}]) @@
    [get_unread_emails |-> [required |-> {}, optional |-> {}],
     mark_email_processed |-> [required |-> {"email_id"}, optional |-> {}]]

hasattr(client, tool_name) == tool_name \in DOMAIN client

\* method(**kwargs) binds: every required parameter given, no unknown keyword.
Binds(method, kwargs) ==
    /\ method.required \subseteq kwargs.keys
    /\ kwargs.keys \subseteq (method.required \cup method.optional)

\* What a client method returns when it does not raise.
MethodReturn(tool_name) ==
    CASE tool_name = "get_person_by_email" -> JDict({"people"})
      [] tool_name = "get_unread_emails" -> JList
      [] OTHER -> JNull

\* The lookup with the mail client asked first.
Resolve_MailFirst(tool_name) ==
    IF hasattr(MSGraphClient, tool_name) THEN "mail"
    ELSE IF hasattr(TwentyCRMAPI, tool_name) THEN "crm"
    ELSE "none"

\* The client whose method call_tool picks: CRM first, then mail.
Resolve(tool_name) ==
    IF hasattr(TwentyCRMAPI, tool_name) THEN "crm"
    ELSE IF hasattr(MSGraphClient, tool_name) THEN "mail"
    ELSE "none"

ClientOf(which) == IF which = "crm" THEN TwentyCRMAPI ELSE MSGraphClient

\* The client method body that call_tool runs: "none" when the name is not
\* found or the keywords do not bind.
MethodRun(tool_name, kwargs) ==
    LET which == Resolve(tool_name) IN
    IF which # "none" /\ Binds(ClientOf(which)[tool_name], kwargs)
    THEN which ELSE "none"

\* call_tool with an except clause that swallows the exception and
\* returns an empty result.
ErrorResult_Swallowed(message) == JDict({})

\* The except clause of call_tool.
ErrorResult(message) == JError(message)

\* call_tool answering an unknown name with None instead of an error.
call_tool_UnknownIsNone(tool_name, kwargs, outcome) ==
    LET which == Resolve(tool_name) IN
    IF which = "none" THEN JNull
    ELSE IF ~Binds(ClientOf(which)[tool_name], kwargs)
         THEN ErrorResult(TypeErrorMessage(tool_name))
    ELSE IF outcome = "raises" THEN ErrorResult(HTTPErrorMessage)
    ELSE MethodReturn(tool_name)

\* CRMTools.call_tool(tool_name, **kwargs); outcome is what the client
\* method does when it runs: "returns" or "raises".
call_tool(tool_name, kwargs, outcome) ==
    LET which == Resolve(tool_name) IN
    IF which = "none" THEN ErrorResult(NotFoundMessage(tool_name))
    ELSE IF ~Binds(ClientOf(which)[tool_name], kwargs)
         THEN ErrorResult(TypeErrorMessage(tool_name))
    ELSE IF outcome = "raises" THEN ErrorResult(HTTPErrorMessage)
    ELSE MethodReturn(tool_name)

Outcomes == {"returns", "raises"}

\* ------------------------------------------------------------------------
\* Messages of the conversation
\* ------------------------------------------------------------------------
SystemContent == "You are an intelligent email processing agent"
UserContent(email_id) == "Analyze the following email: " \o email_id

Message(role, content, calls, id, name) ==
    [role |-> role, content |-> content, tool_calls |-> calls,
     tool_call_id |-> id, name |-> name]

SystemMessage == Message("system", SystemContent, <<>>, None, None)
UserMessage(email_id) == Message("user", UserContent(email_id), <<>>, None, None)
\* messages.append(response_message) / the dict built on the Gemini path
AssistantMessage(calls) == Message("assistant", None, calls, None, None)
\* The dict appended after a dispatch.
ToolMessage(id, name, output) ==
    Message("tool", json_dumps(output), <<>>, id, name)

Emails == {"m1"}

\* ------------------------------------------------------------------------
\* What the LLM can answer
\* ------------------------------------------------------------------------
\* The texts of a final answer.
Texts == {"Email processed.", "No action needed."}

ValidArguments == "{\"email\": \"a@x.com\"}"
MalformedArguments == "{\"email\": "
NonObjectArguments == "null"

\* A tool call of an OpenAI response: tool_call.function.name and
\* tool_call.function.arguments (a text).
OpenAIPlainCalls == {<<"get_person_by_email", ValidArguments>>}
OpenAIOddCalls ==
    {<<"get_person_by_email", MalformedArguments>>,
     <<"get_unread_emails", MalformedArguments>>,
     <<"get_person_by_email", "{}">>,
     <<"get_person_by_email", NonObjectArguments>>,
     <<"no_such_tool", "{}">>}

\* A function_call part of a Gemini response: its name and its args (a dict,
\* or None).
GeminiPlainCalls == {<<"get_person_by_email", JDict({"email"})>>}
GeminiOddCalls ==
    {<<"get_person_by_email", JNull>>,
     <<"get_unread_emails", JNull>>,
     <<"no_such_tool", JDict({})>>}

PlainCalls(p) == IF p = "openai" THEN OpenAIPlainCalls ELSE GeminiPlainCalls
OddCalls(p) == IF p = "openai" THEN OpenAIOddCalls ELSE GeminiOddCalls

\* The tool call the system prompt asks for at the end: mark_email_processed
\* with an email id.
MarkArguments == "{\"email_id\": \"m\"}"
MarkCalls(p) ==
    IF p = "openai" THEN {<<"mark_email_processed", MarkArguments>>}
    ELSE {<<"mark_email_processed", JDict({"email_id"})>>}

\* The tool calls offered while run() works through a mailbox.
RunCalls(p) ==
    PlainCalls(p) \cup MarkCalls(p) \cup
    (IF p = "openai" THEN {<<"get_person_by_email", NonObjectArguments>>}
     ELSE {<<"get_person_by_email", JNull>>})

\* Sequences of 1..n elements of S.
SeqUpTo(S, n) == UNION {[1..k -> S] : k \in 1..n}

OddCount(p, batch) == Cardinality({i \in DOMAIN batch : batch[i] \in OddCalls(p)})

\* The identifier the OpenAI endpoint gives the n-th tool call of a run.
OpenAICallId(n) == "call_" \o ToString(n)

\* ------------------------------------------------------------------------
\* The steps of EmailProcessingAgent._call_ai_with_tools
\* ------------------------------------------------------------------------
\* The names get_openai_tools_schema / get_gemini_tools_schema declare.
SchemaNames ==
    {"get_person_by_email", "create_person", "get_opportunities_by_person_id",
     "create_opportunity", "add_note_to_record", "add_standalone_note",
     "mark_email_processed"}

\* self.tools_schema, set once by __init__.
tools_schema(p) == [format |-> p, names |-> SchemaNames]

\* The depth guard one level late.
DepthExceeded_OneLate(d) == d > max_depth + 1

\* if depth > self.max_depth
DepthExceeded(d) == d > max_depth

StoppedText == "Stopped due to exceeding maximum reasoning depth."
NoResponseText == "No relevant response or tool call from AI."
ErrorText(message) == "Error: " \o message
TransportErrorMessage == "Connection error."
RateLimitErrorMessage == "Error code: 429 - Rate limit reached"

\* The retry policy's maximum number of attempts for one request, as the
\* policy is documented; EmailProcessingAgent sets none.
max_retries == 5

\* The exceptions the request to the LLM endpoint can raise.
LLMFailures == {TransportErrorMessage, RateLimitErrorMessage}
UnpackErrorMessage == "argument after ** must be a mapping"

\* What one message contributes to conversation_history_for_llm.
HistoryItems(p, msg) ==
    CASE msg.role = "system" -> <<>>
      [] msg.role = "user" -> <<[form |-> "str", text |-> msg.content]>>
      [] msg.role = "assistant" /\ p = "openai" -> <<[form |-> "msg", msg |-> msg]>>
      [] msg.role = "assistant" /\ p = "gemini" ->
            IF msg.tool_calls # <<>>
            THEN [i \in DOMAIN msg.tool_calls |->
                    [form |-> "FunctionCall", name |-> msg.tool_calls[i].name,
                     args |-> json_loads(msg.tool_calls[i].arguments).value]]
            ELSE IF msg.content # None
                 THEN <<[form |-> "str", text |-> msg.content]>>
                 ELSE <<>>
      [] msg.role = "tool" /\ p = "openai" -> <<[form |-> "msg", msg |-> msg]>>
      [] OTHER ->
            <<[form |-> "FunctionResponse", name |-> msg.name,
               response |-> json_loads(msg.content).value]>>

\* The for loop that builds conversation_history_for_llm.
RECURSIVE BuildHistory(_, _)
BuildHistory(p, msgs) ==
    IF msgs = <<>> THEN <<>>
    ELSE HistoryItems(p, Head(msgs)) \o BuildHistory(p, Tail(msgs))

\* system_instruction_content after the for loop: the last system message.
RECURSIVE SystemInstruction(_)
SystemInstruction(msgs) ==
    IF msgs = <<>> THEN ""
    ELSE IF msgs[Len(msgs)].role = "system" THEN msgs[Len(msgs)].content
    ELSE SystemInstruction(SubSeq(msgs, 1, Len(msgs) - 1))

\* The keyword arguments of the request to the LLM endpoint; seen is the
\* length of the conversation the request was built from.
Submission(p, msgs) ==
    IF p = "openai"
    THEN [messages |-> BuildHistory(p, msgs), tools |-> tools_schema(p),
          tool_choice |-> "auto", system_instruction |-> None,
          seen |-> Len(msgs)]
    ELSE [messages |-> BuildHistory(p, msgs), tools |-> tools_schema(p),
          tool_choice |-> None, system_instruction |-> SystemInstruction(msgs),
          seen |-> Len(msgs)]

\* gemini_tool_calls_openai_format
GeminiToolCallsOpenAIFormat(calls) ==
    [i \in DOMAIN calls |->
        [id |-> "gemini_call_" \o calls[i].name, name |-> calls[i].name,
         arguments |-> json_dumps(calls[i].arguments)]]

\* The tool_calls of the assistant message appended for a response.
AssistantToolCalls(p, calls) ==
    IF p = "openai" THEN calls ELSE GeminiToolCallsOpenAIFormat(calls)

\* function_args of one tool call.
FunctionArgs(p, tool_call) ==
    IF p = "openai"
    THEN LET parsed == json_loads(tool_call.arguments) IN
         IF parsed.ok THEN parsed.value ELSE JDict({})
    ELSE IF tool_call.arguments.t = "null" \/ tool_call.arguments = JDict({})
         THEN JDict({})
         ELSE tool_call.arguments

\* tool_call_id synthesised from the name on both paths.
ToolCallId_FromName(p, tool_call) == "gemini_call_" \o tool_call.name

\* tool_call_id of one tool call.
ToolCallId(p, tool_call) ==
    IF p = "openai" THEN tool_call.id ELSE "gemini_call_" \o tool_call.name

\* self.crm_tools.call_tool(function_name, **function_args) reaches call_tool
\* only when function_args is a mapping.
Unpacks(function_args) == function_args.t = "dict"

\* The for loop walking the tool calls backwards.
CurrentToolCall_Reversed(calls, i) == calls[Len(calls) - i + 1]

\* for tool_call in tool_calls: the call the i-th iteration handles.
CurrentToolCall(calls, i) == calls[i]

\* The assistant message of a response with tool calls left out.
AppendAssistant_Skipped(msgs, p, calls) == msgs

\* The conversation after the assistant message of a response with tool
\* calls is appended.
AppendAssistant(msgs, p, calls) ==
    Append(msgs, AssistantMessage(AssistantToolCalls(p, calls)))

\* The tool message written over the last message of the conversation.
AppendTool_Overwrites(msgs, id, name, output) ==
    [msgs EXCEPT ![Len(msgs)] = ToolMessage(id, name, output)]

\* The conversation after the tool message of a dispatched call is appended.
AppendTool(msgs, id, name, output) == Append(msgs, ToolMessage(id, name, output))

NoTextAnswer == "No text response from Gemini after processing."

\* The recursive call made with the same depth.
NextDepth_Same(d) == d

\* The depth of the recursive call that follows the for loop.
NextDepth(d) == d + 1

\* The placeholder returned whatever the response's text.
FinalAnswer_Placeholder(p, text) == NoTextAnswer

\* What the loop returns for a response without tool calls.
FinalAnswer(p, text) ==
    IF p = "openai" THEN text
    ELSE IF text # None /\ text # "" THEN text ELSE NoTextAnswer

\* The tool calls of an LLM response, as the loop receives them.
ResponseToolCalls(p, batch, first) ==
    [i \in DOMAIN batch |->
        [id |-> IF p = "openai" THEN OpenAICallId(first + i) ELSE None,
         name |-> batch[i][1], arguments |-> batch[i][2]]]

\* ------------------------------------------------------------------------
\* MSGraphClient: the cached access token and the two mailbox operations
\* ------------------------------------------------------------------------
AccessToken == "token"

\* What the token acquisition does when it is attempted, and what the HTTP
\* request of an operation does when it is made.
AcquireOutcomes == {"acquired", "failed"}
HttpOutcomes == {"ok", "fails"}

\* get_access_token acquires only when nothing is cached.
Acquires(token) == token = None

\* get_access_token raises: the acquisition was attempted and gave no token.
AcquireRaises(token, acquire) == Acquires(token) /\ acquire = "failed"

\* self._access_token left as it was by get_access_token.
CachedAfter_Forgets(token, acquire) == None

\* self._access_token after get_access_token.
CachedAfter(token, acquire) ==
    IF ~Acquires(token) THEN token
    ELSE IF acquire = "acquired" THEN AccessToken
    ELSE None

\* The operation raises: no token, or the request fails.
MailRaises(token, acquire, http) ==
    AcquireRaises(token, acquire) \/ http = "fails"

\* The inputs that make a difference: the acquisition outcome when one is
\* attempted, the request's outcome when the request is made.
MailInputs(token) ==
    {inp \in [acquire : AcquireOutcomes, http : HttpOutcomes] :
        /\ ~Acquires(token) => inp.acquire = "acquired"
        /\ AcquireRaises(token, inp.acquire) => inp.http = "ok"}

\* The mailbox after the operation: mark_email_processed sets isRead.
MarkedAfter(read, op, email_id, raised) ==
    IF op = "mark_email_processed" /\ ~raised THEN read \cup {email_id} ELSE read

\* An entry of the log of mail operations.
MailEntry(op, email_id, token, inp) ==
    [op |-> op, email_id |-> email_id,
     acquire |-> IF Acquires(token) THEN inp.acquire ELSE "cached",
     raised |-> MailRaises(token, inp.acquire, inp.http)]

\* The unread messages whose "sender" (or "body") is null in the fetched
\* data.
NullSender == {"m0"}

\* The field extraction at the head of process_single_email gets through:
\* email_data.get("sender", {}) gives None for a null field, and .get on
\* None raises AttributeError.
Extracts(email_id) == email_id \notin NullSender

\* The lists get_unread_emails can return to run().
UnreadLists == {<<>>, <<"m1">>, <<"m1", "m2">>, <<"m0", "m1">>}

VARIABLES
    provider,       \* self.llm_provider
    email,          \* id of the email being processed
    pc,             \* position: "idle", "call", "tools", "done"
    depth,          \* depth argument of the current _call_ai_with_tools
    messages,       \* the conversation
    tool_calls,     \* tool_calls of the response being handled
    idx,            \* index in tool_calls of the next call to handle
    result,         \* what _call_ai_with_tools returned
    submissions,    \* the requests made to the LLM endpoint, in order
    llm_log,        \* the LLM's responses, in order
    invocations,    \* the calls of call_tool, in order
    issued,         \* number of tool calls the LLM issued so far
    faults,         \* number of faults so far
    access_token,   \* MSGraphClient._access_token
    marked,         \* ids of the messages of the mailbox with isRead set
    mail_log,       \* the operations run on the mail client, in order
    unread_emails,  \* the list run() got from get_unread_emails
    pos,            \* index in unread_emails of the email run() is at
    outcomes,       \* what run() logged for the emails done so far
    dispatches,     \* the calls of call_tool made from outside the loop
    crm_log,        \* the calls of TwentyCRMAPI.get_person_by_email, in order
    review_file,    \* the items in review_queue.json
    archive_file,   \* the items in reviewed_archive.json
    fetched,        \* the emails the last run of main_workflow.main fetched
    pushes,         \* the calls of update_crm, in order
    queued_ids      \* the ids of the items ever put in the review queue

mailvars == <<access_token, marked, mail_log>>
runvars == <<unread_emails, pos, outcomes>>
dashvars == <<review_file, archive_file, fetched, pushes, queued_ids>>

vars == <<provider, email, pc, depth, messages, tool_calls, idx, result,
          submissions, llm_log, invocations, issued, faults, mailvars,
          runvars, dispatches, crm_log, dashvars>>

\* One operation of the mail client: get_access_token, then the request.
MailCall(op, email_id, inp) ==
    /\ access_token' = CachedAfter(access_token, inp.acquire)
    /\ marked' = MarkedAfter(marked, op, email_id,
                             MailRaises(access_token, inp.acquire, inp.http))
    /\ mail_log' = Append(mail_log, MailEntry(op, email_id, access_token, inp))

\* What the client method call_tool runs does to the clients: a CRM method
\* touches nothing of this program, a mail method is a mail operation.
ClientEffect(tool_name, kwargs, outcome, email_id) ==
    IF MethodRun(tool_name, kwargs) = "mail"
    THEN \E inp \in MailInputs(access_token) :
            /\ MailRaises(access_token, inp.acquire, inp.http)
                   <=> outcome = "raises"
            /\ MailCall(tool_name, email_id, inp)
    ELSE UNCHANGED mailvars

\* The clients after construction, with nothing run yet.
ClientsInit ==
    /\ access_token = None
    /\ marked = {}
    /\ mail_log = <<>>
    /\ unread_emails = <<>>
    /\ pos = 0
    /\ outcomes = <<>>
    /\ dispatches = <<>>
    /\ crm_log = <<>>
    /\ review_file = <<>>
    /\ archive_file = <<>>
    /\ fetched = <<>>
    /\ pushes = <<>>
    /\ queued_ids = {}

Init ==
    /\ provider \in Providers
    /\ email \in Emails
    /\ pc = "idle"
    /\ depth = 0
    /\ messages = <<>>
    /\ tool_calls = <<>>
    /\ idx = 1
    /\ result = None
    /\ submissions = <<>>
    /\ llm_log = <<>>
    /\ invocations = <<>>
    /\ issued = 0
    /\ faults = 0
    /\ ClientsInit

\* process_single_email builds the conversation and enters the loop.
ProcessSingleEmail ==
    /\ pc = "idle"
    /\ messages' = <<SystemMessage, UserMessage(email)>>
    /\ depth' = 0
    /\ pc' = "call"
    /\ UNCHANGED <<provider, email, tool_calls, idx, result, submissions,
                   llm_log, invocations, issued, faults>>
    /\ UNCHANGED <<mailvars, runvars, dispatches>>
    /\ UNCHANGED <<crm_log, dashvars>>

\* The depth guard returns without a request.
DepthStop ==
    /\ pc = "call"
    /\ DepthExceeded(depth)
    /\ result' = StoppedText
    /\ pc' = "done"
    /\ UNCHANGED <<provider, email, depth, messages, tool_calls, idx,
                   submissions, llm_log, invocations, issued, faults>>
    /\ UNCHANGED <<mailvars, runvars, dispatches>>
    /\ UNCHANGED <<crm_log, dashvars>>

\* The request is made (common part of the four answers).
Submit ==
    /\ pc = "call"
    /\ ~DepthExceeded(depth)
    /\ submissions' = Append(submissions, Submission(provider, messages))

\* The request raises: the except clause returns the error text.
LLMRaises ==
    /\ Submit
    /\ \E message \in LLMFailures :
        /\ llm_log' = Append(llm_log, [kind |-> "raise", text |-> message,
                                       calls |-> <<>>])
        /\ result' = ErrorText(message)
    /\ pc' = "done"
    /\ UNCHANGED <<provider, email, depth, messages, tool_calls, idx,
                   invocations, issued, faults>>
    /\ UNCHANGED <<mailvars, runvars, dispatches>>
    /\ UNCHANGED <<crm_log, dashvars>>

\* The response has text and no tool call.
LLMText ==
    /\ Submit
    /\ \E t \in Texts :
        /\ llm_log' = Append(llm_log, [kind |-> "text", text |-> t, calls |-> <<>>])
        /\ result' = FinalAnswer(provider, t)
    /\ pc' = "done"
    /\ UNCHANGED <<provider, email, depth, messages, tool_calls, idx,
                   invocations, issued, faults>>
    /\ UNCHANGED <<mailvars, runvars, dispatches>>
    /\ UNCHANGED <<crm_log, dashvars>>

\* A Gemini response with neither text nor function call.
LLMEmpty ==
    /\ provider = "gemini"
    /\ Submit
    /\ llm_log' = Append(llm_log, [kind |-> "empty", text |-> None, calls |-> <<>>])
    /\ result' = NoResponseText
    /\ pc' = "done"
    /\ UNCHANGED <<provider, email, depth, messages, tool_calls, idx,
                   invocations, issued, faults>>
    /\ UNCHANGED <<mailvars, runvars, dispatches>>
    /\ UNCHANGED <<crm_log, dashvars>>

\* The response has tool calls: the assistant message is appended and the
\* for loop over the tool calls starts.
LLMToolCallsFrom(offers, n) ==
    /\ Submit
    /\ \E batch \in SeqUpTo(offers, n) :
        /\ issued + Len(batch) <= MaxCalls
        /\ faults + OddCount(provider, batch) <= MaxFaults
        /\ LET calls == ResponseToolCalls(provider, batch, issued) IN
            /\ llm_log' = Append(llm_log, [kind |-> "tool_calls", text |-> None,
                                           calls |-> calls])
            /\ messages' = AppendAssistant(messages, provider, calls)
            /\ tool_calls' = calls
        /\ issued' = issued + Len(batch)
        /\ faults' = faults + OddCount(provider, batch)
    /\ idx' = 1
    /\ pc' = "tools"
    /\ UNCHANGED <<provider, email, depth, result, invocations>>
    /\ UNCHANGED <<mailvars, runvars, dispatches>>
    /\ UNCHANGED <<crm_log, dashvars>>

\* While one email is followed on its own the LLM asks for up to MaxBatch
\* tools in a response, well-formed or not.
LLMToolCalls ==
    LLMToolCallsFrom(PlainCalls(provider) \cup OddCalls(provider), MaxBatch)

\* After the body of the for loop for tool_calls[idx]: the next iteration, or
\* return self._call_ai_with_tools(messages, depth=depth + 1).
NextIteration ==
    IF idx < Len(tool_calls)
    THEN /\ idx' = idx + 1
         /\ pc' = "tools"
         /\ depth' = depth
    ELSE /\ idx' = idx + 1
         /\ pc' = "call"
         /\ depth' = NextDepth(depth)

\* One iteration of the for loop: the call is dispatched and answered.
ToolStep ==
    /\ pc = "tools"
    /\ idx <= Len(tool_calls)
    /\ LET tool_call == CurrentToolCall(tool_calls, idx)
           function_name == tool_call.name
           function_args == FunctionArgs(provider, tool_call)
           tool_call_id == ToolCallId(provider, tool_call)
       IN
        /\ Unpacks(function_args)
        /\ \E outcome \in Outcomes :
            /\ outcome = "raises" =>
                /\ MethodRun(function_name, function_args) # "none"
                /\ faults < MaxFaults
            /\ faults' = IF outcome = "raises" THEN faults + 1 ELSE faults
            /\ invocations' = Append(invocations,
                    [tool_call_id |-> tool_call_id, name |-> function_name,
                     kwargs |-> function_args,
                     ran |-> MethodRun(function_name, function_args),
                     outcome |-> outcome, at |-> Len(messages)])
            /\ messages' = AppendTool(messages, tool_call_id, function_name,
                    call_tool(function_name, function_args, outcome))
            /\ ClientEffect(function_name, function_args, outcome, email)
    /\ NextIteration
    /\ UNCHANGED <<provider, email, tool_calls, result, submissions, llm_log,
                   issued>>
    /\ UNCHANGED <<runvars, dispatches>>
    /\ UNCHANGED <<crm_log, dashvars>>

\* function_args is not a mapping: the call raises TypeError before
\* call_tool is entered, and the except clause returns the error text.
ToolStepRaises ==
    /\ pc = "tools"
    /\ idx <= Len(tool_calls)
    /\ ~Unpacks(FunctionArgs(provider, CurrentToolCall(tool_calls, idx)))
    /\ result' = ErrorText(UnpackErrorMessage)
    /\ pc' = "done"
    /\ UNCHANGED <<provider, email, depth, messages, tool_calls, idx,
                   submissions, llm_log, invocations, issued, faults>>
    /\ UNCHANGED <<mailvars, runvars, dispatches>>
    /\ UNCHANGED <<crm_log, dashvars>>

Next ==
    \/ ProcessSingleEmail
    \/ DepthStop
    \/ LLMRaises
    \/ LLMText
    \/ LLMEmpty
    \/ LLMToolCalls
    \/ ToolStep
    \/ ToolStepRaises

Spec == Init /\ [][Next]_vars

\* The loop runs to its return once an email is taken up: the code is one
\* sequential thread and every request and dispatch returns or raises.
FairSpec == Spec /\ WF_vars(Next)

\* ------------------------------------------------------------------------
\* EmailProcessingAgent.run over a mailbox
\* ------------------------------------------------------------------------
\* run() fetches the unread emails; an exception of the fetch reaches run's
\* own except clause, an empty list returns.
Run ==
    /\ pc = "run"
    /\ \E inp \in MailInputs(access_token) :
        /\ MailCall("get_unread_emails", None, inp)
        /\ IF MailRaises(access_token, inp.acquire, inp.http)
           THEN /\ pc' = "crashed"
                /\ UNCHANGED <<unread_emails, pos>>
           ELSE \E list \in UnreadLists :
                /\ unread_emails' = list
                /\ pos' = IF list = <<>> THEN 0 ELSE 1
                /\ pc' = IF list = <<>> THEN "finished" ELSE "email"
    /\ UNCHANGED <<provider, email, depth, messages, tool_calls, idx, result,
                   submissions, llm_log, invocations, issued, faults,
                   outcomes, dispatches>>
    /\ UNCHANGED <<crm_log, dashvars>>

\* The for loop of run() takes the next email and calls
\* process_single_email on it, with a conversation of its own.
RunForEmail ==
    /\ pc = "email"
    /\ Extracts(unread_emails[pos])
    /\ email' = unread_emails[pos]
    /\ pc' = "idle"
    /\ messages' = <<>>
    /\ tool_calls' = <<>>
    /\ idx' = 1
    /\ result' = None
    /\ submissions' = <<>>
    /\ llm_log' = <<>>
    /\ invocations' = <<>>
    /\ UNCHANGED <<provider, depth, issued, faults, mailvars, runvars,
                   dispatches>>
    /\ UNCHANGED <<crm_log, dashvars>>

\* The field extraction of process_single_email raises: it stands before
\* the try, so the exception leaves process_single_email and the for loop
\* and reaches the except clause of run().
RunExtractionRaises ==
    /\ pc = "email"
    /\ ~Extracts(unread_emails[pos])
    /\ email' = unread_emails[pos]
    /\ pc' = "crashed"
    /\ UNCHANGED <<provider, depth, messages, tool_calls, idx, result,
                   submissions, llm_log, invocations, issued, faults,
                   mailvars, runvars, dispatches>>
    /\ UNCHANGED <<crm_log, dashvars>>

\* The batch abandoned when an email's loop returned an error text.
AfterEmail_StopsOnError(text, i, n) ==
    IF i < n /\ text \in Texts THEN "email" ELSE "finished"

\* Where run() goes once process_single_email returned for the i-th of n
\* emails: whatever was returned, the for loop goes on.
AfterEmail(text, i, n) == IF i < n THEN "email" ELSE "finished"

\* _call_ai_with_tools returned: process_single_email logs the final comment
\* and returns to the for loop.
RunEmailDone ==
    /\ pc = "done"
    /\ pos >= 1
    /\ outcomes' = Append(outcomes,
            [email |-> email, comment |-> result,
             submissions |-> Len(submissions),
             last |-> IF llm_log = <<>> THEN None
                      ELSE llm_log[Len(llm_log)].kind])
    /\ pos' = pos + 1
    /\ pc' = AfterEmail(result, pos, Len(unread_emails))
    /\ UNCHANGED <<provider, email, depth, messages, tool_calls, idx, result,
                   submissions, llm_log, invocations, issued, faults,
                   unread_emails, mailvars, dispatches>>
    /\ UNCHANGED <<crm_log, dashvars>>

\* While run() works through a mailbox the LLM asks for one tool at a time.
RunLLMToolCalls == LLMToolCallsFrom(RunCalls(provider), 1)

RunInit ==
    /\ provider \in Providers
    /\ email = None
    /\ pc = "run"
    /\ depth = 0
    /\ messages = <<>>
    /\ tool_calls = <<>>
    /\ idx = 1
    /\ result = None
    /\ submissions = <<>>
    /\ llm_log = <<>>
    /\ invocations = <<>>
    /\ issued = 0
    /\ faults = 0
    /\ ClientsInit

RunNext ==
    \/ Run
    \/ RunForEmail
    \/ RunExtractionRaises
    \/ ProcessSingleEmail
    \/ DepthStop
    \/ LLMRaises
    \/ LLMText
    \/ LLMEmpty
    \/ RunLLMToolCalls
    \/ ToolStep
    \/ ToolStepRaises
    \/ RunEmailDone

RunSpec == RunInit /\ [][RunNext]_vars

\* ------------------------------------------------------------------------
\* CRMTools.call_tool on its own
\* ------------------------------------------------------------------------
DispatchNames ==
    {"get_person_by_email", "get_unread_emails", "mark_email_processed",
     "no_such_tool", "__init__"}

DispatchKwargs ==
    {JDict({}), JDict({"email"}), JDict({"email_id"}),
     JDict({"base_url", "api_key"}),
     JDict({"client_id", "authority", "scope"})}

\* One call of call_tool with any name and keywords.
Dispatch ==
    /\ Len(dispatches) < MaxDispatches
    /\ \E tool_name \in DispatchNames, kwargs \in DispatchKwargs,
          outcome \in Outcomes :
        /\ outcome = "raises" => MethodRun(tool_name, kwargs) # "none"
        /\ ClientEffect(tool_name, kwargs, outcome, "m1")
        /\ dispatches' = Append(dispatches,
                [tool_name |-> tool_name, kwargs |-> kwargs,
                 ran |-> MethodRun(tool_name, kwargs),
                 outcome |-> outcome,
                 output |-> call_tool(tool_name, kwargs, outcome),
                 mail_before |-> Len(mail_log), mail_after |-> Len(mail_log')])
    /\ UNCHANGED <<provider, email, pc, depth, messages, tool_calls, idx,
                   result, submissions, llm_log, invocations, issued, faults,
                   runvars>>
    /\ UNCHANGED <<crm_log, dashvars>>

ToolNext == Dispatch

ToolSpec == Init /\ [][ToolNext]_vars

\* ------------------------------------------------------------------------
\* The operations of MSGraphClient on their own
\* ------------------------------------------------------------------------
MailIds == {"m1", "m2"}

\* MSGraphClient.get_unread_emails()
GetUnreadEmails ==
    /\ Len(mail_log) < MaxMailOps
    /\ \E inp \in MailInputs(access_token) :
          MailCall("get_unread_emails", None, inp)
    /\ UNCHANGED <<provider, email, pc, depth, messages, tool_calls, idx,
                   result, submissions, llm_log, invocations, issued, faults,
                   runvars, dispatches>>
    /\ UNCHANGED <<crm_log, dashvars>>

\* MSGraphClient.mark_email_processed(email_id)
MarkEmailProcessed ==
    /\ Len(mail_log) < MaxMailOps
    /\ \E email_id \in MailIds, inp \in MailInputs(access_token) :
          MailCall("mark_email_processed", email_id, inp)
    /\ UNCHANGED <<provider, email, pc, depth, messages, tool_calls, idx,
                   result, submissions, llm_log, invocations, issued, faults,
                   runvars, dispatches>>
    /\ UNCHANGED <<crm_log, dashvars>>

MailNext ==
    \/ GetUnreadEmails
    \/ MarkEmailProcessed

MailSpec == Init /\ [][MailNext]_vars

\* ------------------------------------------------------------------------
\* crm-review-dashboard: main_workflow.main fills the review queue
\* ------------------------------------------------------------------------
\* The emails authenticate_and_fetch_emails_userflow can return: the id is
\* None when the email has none, from_null tells that "from" is null.
WorkflowEmails ==
    [id : {"e1", "e2", None}, subject : {"s1", "s2"}, from_null : {FALSE}]
    \cup {[id |-> "e2", subject |-> "s2", from_null |-> TRUE]}

\* The item main() builds for an email.
ReviewItem(e) ==
    [id |-> e.id, email_subject |-> e.subject, status |-> "New",
     review_status |-> None]

\* existing_ids left as it was after an item is added.
ExistingIdsAfter_Unchanged(existing_ids, email_id) == existing_ids

\* existing_ids.add(email_id)
ExistingIdsAfter(existing_ids, email_id) == existing_ids \cup {email_id}

\* if not email_id or email_id in existing_ids: continue
Skipped(e, existing_ids) == e.id = None \/ e.id \in existing_ids

\* The for loop of main() over the fetched emails: ok is FALSE when building
\* an item raised (email.get('from', {}) is None), which ends main() before
\* anything is saved.
RECURSIVE AddEmails(_, _, _)
AddEmails(queue, existing_ids, emails) ==
    IF emails = <<>> THEN [ok |-> TRUE, queue |-> queue]
    ELSE LET e == Head(emails) IN
         IF Skipped(e, existing_ids)
         THEN AddEmails(queue, existing_ids, Tail(emails))
         ELSE IF e.from_null THEN [ok |-> FALSE, queue |-> queue]
         ELSE AddEmails(Append(queue, ReviewItem(e)),
                        ExistingIdsAfter(existing_ids, e.id), Tail(emails))

ItemIds(items) == {items[i].id : i \in DOMAIN items}

\* One run of main(): fetch, load, add, save when something was added.
MainWorkflow ==
    /\ \E emails \in {<<>>} \cup SeqUpTo(WorkflowEmails, MaxFetch) :
        /\ fetched' = emails
        /\ LET added == AddEmails(review_file, ItemIds(review_file), emails) IN
           review_file' =
              IF emails # <<>> /\ added.ok /\ Len(added.queue) > Len(review_file)
              THEN added.queue ELSE review_file
    /\ queued_ids' = queued_ids \cup ItemIds(review_file')
    /\ UNCHANGED <<provider, email, pc, depth, messages, tool_calls, idx,
                   result, submissions, llm_log, invocations, issued, faults,
                   mailvars, runvars, dispatches, crm_log, archive_file,
                   pushes>>

\* The review queues main() can find: no two items with the same id.
InitialQueues ==
    {<<>>,
     <<[id |-> "e1", email_subject |-> "s1", status |-> "New",
        review_status |-> None]>>,
     <<[id |-> "e2", email_subject |-> "s2", status |-> "Edited",
        review_status |-> None],
       [id |-> "e1", email_subject |-> "s1", status |-> "New",
        review_status |-> None]>>}

QueueInit ==
    /\ provider \in Providers
    /\ email \in Emails
    /\ pc = "idle"
    /\ depth = 0
    /\ messages = <<>>
    /\ tool_calls = <<>>
    /\ idx = 1
    /\ result = None
    /\ submissions = <<>>
    /\ llm_log = <<>>
    /\ invocations = <<>>
    /\ issued = 0
    /\ faults = 0
    /\ access_token = None
    /\ marked = {}
    /\ mail_log = <<>>
    /\ unread_emails = <<>>
    /\ pos = 0
    /\ outcomes = <<>>
    /\ dispatches = <<>>
    /\ crm_log = <<>>
    /\ review_file \in InitialQueues
    /\ archive_file = <<>>
    /\ fetched = <<>>
    /\ pushes = <<>>
    /\ queued_ids = ItemIds(review_file)

QueueNext == MainWorkflow

QueueSpec == QueueInit /\ [][QueueNext]_vars

\* ------------------------------------------------------------------------
\* crm-review-dashboard: the approve and reject buttons of app.py
\* ------------------------------------------------------------------------
PushOutcomes == {"returns", "raises"}
WriteOutcomes == {"ok", "fails"}

\* What the reviewer can leave in the "Proposed Status" field of an item.
StatusInputs(item) == {item.status, "Edited"}

\* save_items: the file holds the items, or what it held when the write
\* failed (the exception is logged and swallowed).
save_items(file, items, write) == IF write = "ok" THEN items ELSE file

\* review_items.pop(i)
Pop(items, i) == SubSeq(items, 1, i - 1) \o SubSeq(items, i + 1, Len(items))

\* The try block goes on after update_crm whatever it did.
PushReturned_Always(outcome) == TRUE

\* update_crm returned: the try block goes on to archive the item.
PushReturned(outcome) == outcome = "returns"

\* The script run in which "Approve & Push to CRM" of item i is clicked.
Approve ==
    /\ Len(pushes) < MaxPushes
    /\ Len(archive_file) < MaxArchive
    /\ \E i \in DOMAIN review_file, push \in PushOutcomes,
          write_archive \in WriteOutcomes, write_review \in WriteOutcomes :
        \E status_input \in StatusInputs(review_file[i]) :
        LET item == [review_file[i] EXCEPT !.status = status_input]
            archived_item == [item EXCEPT !.review_status = "Approved"]
        IN
        /\ pushes' = Append(pushes, [id |-> item.id, outcome |-> push])
        /\ IF PushReturned(push)
           THEN /\ archive_file' = save_items(archive_file,
                        Append(archive_file, archived_item), write_archive)
                /\ review_file' = save_items(review_file, Pop(review_file, i),
                        write_review)
           ELSE /\ write_archive = "ok"
                /\ write_review = "ok"
                /\ UNCHANGED <<archive_file, review_file>>
    /\ UNCHANGED <<provider, email, pc, depth, messages, tool_calls, idx,
                   result, submissions, llm_log, invocations, issued, faults,
                   mailvars, runvars, dispatches, crm_log, fetched,
                   queued_ids>>

\* The script run in which "Reject & Remove" of item i is clicked.
Reject ==
    /\ Len(archive_file) < MaxArchive
    /\ \E i \in DOMAIN review_file,
          write_archive \in WriteOutcomes, write_review \in WriteOutcomes :
        LET rejected_item == [review_file[i] EXCEPT !.review_status = "Rejected"]
        IN
        /\ archive_file' = save_items(archive_file,
                Append(archive_file, rejected_item), write_archive)
        /\ review_file' = save_items(review_file, Pop(review_file, i),
                write_review)
    /\ UNCHANGED <<provider, email, pc, depth, messages, tool_calls, idx,
                   result, submissions, llm_log, invocations, issued, faults,
                   mailvars, runvars, dispatches, crm_log, fetched, pushes,
                   queued_ids>>

DashNext ==
    \/ Approve
    \/ Reject

DashSpec == QueueInit /\ [][DashNext]_vars

\* ------------------------------------------------------------------------
\* core/twenty_crm_api.py: TwentyCRMAPI.get_person_by_email
\* ------------------------------------------------------------------------
\* Status codes the CRM answers with.
HttpStatuses == {200, 304, 400, 401, 404, 429, 500, 503}

\* What response.json() finds in the body: a dictionary with people, one
\* with an empty list, one whose "data" is null, a list, or no JSON at all.
Bodies == {"people", "no_people", "null_data", "list", "not_json"}

CrmResponses ==
    [kind : {"http"}, status : HttpStatuses, body : Bodies]
    \cup {[kind |-> "network_error", status |-> None, body |-> None]}

Raises(exception, status_code) ==
    [kind |-> "raises", exception |-> exception, status_code |-> status_code,
     value |-> None]

Returns(value) ==
    [kind |-> "returns", exception |-> None, status_code |-> None,
     value |-> value]

\* response.raise_for_status() raises for the 4xx and 5xx statuses.
raise_for_status(status) == status >= 400 /\ status < 600

\* _make_request: the response, or the exception it logs and raises again.
make_request(response) ==
    IF response.kind = "network_error" THEN Raises("RequestException", None)
    ELSE IF raise_for_status(response.status)
         THEN Raises("HTTPError", response.status)
         ELSE Returns(response.body)

\* What json() and the two get() calls make of a body. A body that is no
\* JSON raises an exception that is a RequestException in some releases of
\* requests and a ValueError in others.
ParsedBodies(body) ==
    CASE body = "people" -> {Returns("people")}
      [] body = "no_people" -> {Returns("no_people")}
      [] body = "list" -> {Returns("error_dict")}
      [] body = "null_data" -> {Returns("error_dict")}
      [] body = "not_json" -> {Returns("error_dict"),
                               Raises("RequestException", None)}

\* A 404 of the CRM is taken for "nobody found".
get_person_by_email_NotFoundIsEmpty(response) ==
    IF response.kind = "http" /\ response.status = 404
    THEN {Returns("no_people")}
    ELSE IF make_request(response).kind = "raises"
         THEN {make_request(response)}
         ELSE ParsedBodies(response.body)

\* The outcomes of get_person_by_email for a response of the CRM.
get_person_by_email(response) ==
    IF make_request(response).kind = "raises"
    THEN {make_request(response)}
    ELSE ParsedBodies(response.body)

GetPersonByEmail ==
    /\ Len(crm_log) < MaxCrmCalls
    /\ \E address \in {"a@x.io", "b@x.io"}, response \in CrmResponses :
        \E outcome \in get_person_by_email(response) :
            crm_log' = Append(crm_log, [email |-> address,
                                        response |-> response,
                                        outcome |-> outcome])
    /\ UNCHANGED <<provider, email, pc, depth, messages, tool_calls, idx,
                   result, submissions, llm_log, invocations, issued, faults,
                   mailvars, runvars, dispatches, dashvars>>

CrmNext == GetPersonByEmail

CrmSpec == Init /\ [][CrmNext]_vars

\* ------------------------------------------------------------------------
\* main.py: the single-file variant of the agent (CRMTools and its loop)
\* ------------------------------------------------------------------------
\* The methods of main.py's TwentyCRMAPI: name -> keyword parameters.
main_TwentyCRMAPI ==
    ("__init__" :> [required |-> {"base_url", "api_key"}, optional |-> {}]) @@
    ("_make_request" :> [required |-> {"method", "endpoint"},
                         optional |-> {"data"}]) @@
    [get_person_by_email |-> [required |-> {"email"}, optional |-> {}],
     create_person |-> [required |-> {"first_name", "last_name", "email"},
                        optional |-> {}],
     get_opportunities_by_person_id |-> [required |-> {"person_id"},
                                         optional |-> {}],
     create_opportunity |-> [required |-> {"title", "description", "person_id"},
                             optional |-> {}],
     add_note_to_record |-> [required |-> {"record_type", "record_id", "content"},
                             optional |-> {}],
     add_standalone_note |-> [required |-> {"content"},
                              optional |-> {"person_id"}]]

\* CRMTools.get_tools_schema of main.py: name -> properties and required.
main_get_tools_schema ==
    [get_person_by_email |-> [properties |-> {"email"}, required |-> {"email"}],
     create_person |-> [properties |-> {"first_name", "last_name", "email"},
                        required |-> {"first_name", "email"}],
     get_opportunities_by_person_id |-> [properties |-> {"person_id"},
                                         required |-> {"person_id"}],
     create_opportunity |-> [properties |-> {"title", "description", "person_id"},
                             required |-> {"title", "description", "person_id"}],
     add_note_to_record |-> [properties |-> {"record_type", "record_id", "content"},
                             required |-> {"record_type", "record_id", "content"}],
     add_standalone_note |-> [properties |-> {"content", "person_id"},
                              required |-> {"content"}],
     mark_email_processed |-> [properties |-> {"email_id"},
                               required |-> {"email_id"}]]

\* The methods that catch what _make_request raises and return a default.
main_Swallows == {"get_person_by_email", "get_opportunities_by_person_id"}

\* getattr(self.twenty_crm_client, tool_name, None) finds a method and the
\* keywords bind to it.
main_MethodRuns(tool_name, kwargs) ==
    /\ hasattr(main_TwentyCRMAPI, tool_name)
    /\ Binds(main_TwentyCRMAPI[tool_name], kwargs)

\* CRMTools.call_tool of main.py: only the CRM client is looked at.
main_call_tool(tool_name, kwargs, outcome) ==
    IF ~hasattr(main_TwentyCRMAPI, tool_name)
    THEN ErrorResult(NotFoundMessage(tool_name))
    ELSE IF ~Binds(main_TwentyCRMAPI[tool_name], kwargs)
         THEN ErrorResult(TypeErrorMessage(tool_name))
    ELSE IF outcome = "raises" /\ tool_name \notin main_Swallows
         THEN ErrorResult(HTTPErrorMessage)
    ELSE IF outcome = "raises" THEN JNull
    ELSE JDict({})

\* The keyword sets a call of a declared tool can carry and still conform
\* to its schema: the required properties, or all of them.
Conforming(tool_name) ==
    {JDict(main_get_tools_schema[tool_name].required),
     JDict(main_get_tools_schema[tool_name].properties)}

MainDispatchNames == DOMAIN main_get_tools_schema \cup {"no_such_tool"}

MainDispatchKwargs(tool_name) ==
    (IF tool_name \in DOMAIN main_get_tools_schema
     THEN Conforming(tool_name) ELSE {}) \cup {JDict({})}

\* One call of main.py's call_tool.
MainDispatch ==
    /\ Len(dispatches) < MaxDispatches
    /\ \E tool_name \in MainDispatchNames, outcome \in Outcomes :
        \E kwargs \in MainDispatchKwargs(tool_name) :
        /\ outcome = "raises" => main_MethodRuns(tool_name, kwargs)
        /\ dispatches' = Append(dispatches,
                [tool_name |-> tool_name, kwargs |-> kwargs,
                 ran |-> main_MethodRuns(tool_name, kwargs),
                 outcome |-> outcome,
                 output |-> main_call_tool(tool_name, kwargs, outcome)])
    /\ UNCHANGED <<provider, email, pc, depth, messages, tool_calls, idx,
                   result, submissions, llm_log, invocations, issued, faults,
                   mailvars, runvars, crm_log, dashvars>>

MainToolNext == MainDispatch

MainToolSpec == Init /\ [][MainToolNext]_vars

\* ------------------------------------------------------------------------
\* main.py: EmailProcessingAgent._call_ai_with_tools
\* ------------------------------------------------------------------------
JSONDecodeErrorMessage == "Expecting value"

\* The tool calls a response of the model can hold.
MainCalls ==
    {<<"get_person_by_email", ValidArguments>>,
     <<"mark_email_processed", MarkArguments>>,
     <<"get_person_by_email", MalformedArguments>>}

\* chat.completions.create(...): the first request carries tools and
\* tool_choice, the request after the tool calls carries neither.
MainSubmission(msgs, with_tools) ==
    [messages |-> msgs,
     tools |-> IF with_tools THEN DOMAIN main_get_tools_schema ELSE None,
     tool_choice |-> IF with_tools THEN "auto" ELSE None,
     seen |-> Len(msgs)]

\* process_single_email builds the conversation and calls the loop.
MainProcessSingleEmail ==
    /\ pc = "idle"
    /\ messages' = <<SystemMessage, UserMessage(email)>>
    /\ pc' = "main_first"
    /\ UNCHANGED <<provider, email, depth, tool_calls, idx, result,
                   submissions, llm_log, invocations, issued, faults,
                   mailvars, runvars, dispatches, crm_log, dashvars>>

\* A request of the loop raises: the except clause returns the error text.
MainLLMRaises ==
    /\ pc \in {"main_first", "main_second"}
    /\ submissions' = Append(submissions,
            MainSubmission(messages, pc = "main_first"))
    /\ \E message \in LLMFailures :
        /\ llm_log' = Append(llm_log, [kind |-> "raise", text |-> message,
                                       calls |-> <<>>])
        /\ result' = ErrorText(message)
    /\ pc' = "done"
    /\ UNCHANGED <<provider, email, depth, messages, tool_calls, idx,
                   invocations, issued, faults,
                   mailvars, runvars, dispatches, crm_log, dashvars>>

\* The first response has no tool call: its content is returned.
MainFirstText ==
    /\ pc = "main_first"
    /\ submissions' = Append(submissions, MainSubmission(messages, TRUE))
    /\ \E t \in Texts :
        /\ llm_log' = Append(llm_log, [kind |-> "text", text |-> t,
                                       calls |-> <<>>])
        /\ result' = t
    /\ pc' = "done"
    /\ UNCHANGED <<provider, email, depth, messages, tool_calls, idx,
                   invocations, issued, faults,
                   mailvars, runvars, dispatches, crm_log, dashvars>>

\* The first response has tool calls: the assistant message is appended and
\* the for loop is entered.
MainFirstToolCalls ==
    /\ pc = "main_first"
    /\ submissions' = Append(submissions, MainSubmission(messages, TRUE))
    /\ \E batch \in SeqUpTo(MainCalls, MaxBatch) :
        /\ issued + Len(batch) <= MaxCalls
        /\ LET calls == ResponseToolCalls("openai", batch, issued) IN
            /\ llm_log' = Append(llm_log, [kind |-> "tool_calls",
                                           text |-> None, calls |-> calls])
            /\ messages' = AppendAssistant(messages, "openai", calls)
            /\ tool_calls' = calls
        /\ issued' = issued + Len(batch)
    /\ idx' = 1
    /\ pc' = "main_tools"
    /\ UNCHANGED <<provider, email, depth, result, invocations, faults,
                   mailvars, runvars, dispatches, crm_log, dashvars>>

\* One iteration of the for loop: json.loads, call_tool, the tool message.
\* After the last one the second request follows.
MainToolStep ==
    /\ pc = "main_tools"
    /\ idx <= Len(tool_calls)
    /\ LET tool_call == tool_calls[idx]
           parsed == json_loads(tool_call.arguments)
       IN
        /\ parsed.ok
        /\ Unpacks(parsed.value)
        /\ \E outcome \in Outcomes :
            /\ outcome = "raises" =>
                    main_MethodRuns(tool_call.name, parsed.value)
            /\ invocations' = Append(invocations,
                    [tool_call_id |-> tool_call.id, name |-> tool_call.name,
                     kwargs |-> parsed.value,
                     ran |-> main_MethodRuns(tool_call.name, parsed.value),
                     outcome |-> outcome, at |-> Len(messages)])
            /\ messages' = AppendTool(messages, tool_call.id, tool_call.name,
                    main_call_tool(tool_call.name, parsed.value, outcome))
    /\ idx' = idx + 1
    /\ pc' = IF idx < Len(tool_calls) THEN "main_tools" ELSE "main_second"
    /\ UNCHANGED <<provider, email, depth, tool_calls, result, submissions,
                   llm_log, issued, faults,
                   mailvars, runvars, dispatches, crm_log, dashvars>>

\* json.loads or the ** unpacking raises: the except clause of the loop
\* returns the error text.
MainToolStepRaises ==
    /\ pc = "main_tools"
    /\ idx <= Len(tool_calls)
    /\ LET parsed == json_loads(tool_calls[idx].arguments) IN
        /\ ~(parsed.ok /\ Unpacks(parsed.value))
        /\ result' = ErrorText(IF parsed.ok THEN UnpackErrorMessage
                               ELSE JSONDecodeErrorMessage)
    /\ pc' = "done"
    /\ UNCHANGED <<provider, email, depth, messages, tool_calls, idx,
                   submissions, llm_log, invocations, issued, faults,
                   mailvars, runvars, dispatches, crm_log, dashvars>>

\* The second response is text: its content is returned.
MainSecondText ==
    /\ pc = "main_second"
    /\ submissions' = Append(submissions, MainSubmission(messages, FALSE))
    /\ \E t \in Texts :
        /\ llm_log' = Append(llm_log, [kind |-> "text", text |-> t,
                                       calls |-> <<>>])
        /\ result' = t
    /\ pc' = "done"
    /\ UNCHANGED <<provider, email, depth, messages, tool_calls, idx,
                   invocations, issued, faults,
                   mailvars, runvars, dispatches, crm_log, dashvars>>

\* The second response asks for tools again: its content, which is None,
\* is returned and the tool calls are dropped.
MainSecondToolCalls ==
    /\ pc = "main_second"
    /\ submissions' = Append(submissions, MainSubmission(messages, FALSE))
    /\ \E batch \in SeqUpTo(MainCalls, 1) :
        /\ issued + Len(batch) <= MaxCalls
        /\ llm_log' = Append(llm_log, [kind |-> "tool_calls", text |-> None,
                calls |-> ResponseToolCalls("openai", batch, issued)])
        /\ issued' = issued + Len(batch)
    /\ result' = None
    /\ pc' = "done"
    /\ UNCHANGED <<provider, email, depth, messages, tool_calls, idx,
                   invocations, faults,
                   mailvars, runvars, dispatches, crm_log, dashvars>>

MainLoopInit == Init /\ provider = "openai"

MainLoopNext ==
    \/ MainProcessSingleEmail
    \/ MainLLMRaises
    \/ MainFirstText
    \/ MainFirstToolCalls
    \/ MainToolStep
    \/ MainToolStepRaises
    \/ MainSecondText
    \/ MainSecondToolCalls

MainLoopSpec == MainLoopInit /\ [][MainLoopNext]_vars

\* ------------------------------------------------------------------------
\* Properties
\* ------------------------------------------------------------------------
ToolMessages == {i \in DOMAIN messages : messages[i].role = "tool"}

\* content deserializes to an object with an "error" key.
HasErrorKey(content) ==
    LET parsed == json_loads(content) IN
    parsed.ok /\ parsed.value.t = "dict" /\ "error" \in parsed.value.keys

\* The index of the last assistant message at or before position i (0: none).
LastAssistant(i) ==
    LET S == {a \in 1..i : messages[a].role = "assistant"} IN
    IF S = {} THEN 0 ELSE CHOOSE a \in S : \A b \in S : b <= a

\* C1: whenever the conversation is about to be submitted again and when the
\* loop has returned, the conversation holds as many tool messages as the
\* LLM issued tool calls.
C1_EveryToolCallAnswered ==
    pc \in {"call", "done"} => Cardinality(ToolMessages) = issued

\* C2 as stated: no more than max_depth requests are made for one email.
C2_AtMostMaxDepthSubmissions == Len(submissions) <= max_depth

\* C2 as amended: no more than max_depth + 1 requests are made for one email
\* (one at each depth 0..max_depth).
C2_AtMostMaxDepthPlusOneSubmissions == Len(submissions) <= max_depth + 1

\* The LLM asked for tools at every turn and the depth guard ended the run.
C2_Witness ==
    /\ pc = "done"
    /\ result = StoppedText
    /\ Len(submissions) = max_depth + 1
    /\ \A i \in DOMAIN llm_log : llm_log[i].kind = "tool_calls"

\* The tool calls of the OpenAI responses so far whose arguments are not JSON.
MalformedCalls ==
    {tc \in UNION {{llm_log[i].calls[j] : j \in DOMAIN llm_log[i].calls} :
                     i \in DOMAIN llm_log} :
        provider = "openai" /\ ~json_loads(tc.arguments).ok}

\* C3: a tool call whose arguments are not valid JSON is never dispatched,
\* and the tool message that answers it carries an "error" key.
C3_MalformedArgumentsNotDispatched ==
    \A tc \in MalformedCalls :
        /\ \A k \in DOMAIN invocations : invocations[k].tool_call_id # tc.id
        /\ \A i \in ToolMessages :
              messages[i].tool_call_id = tc.id => HasErrorKey(messages[i].content)

\* The exception a dispatch raised inside call_tool (None: it returned).
RaisedMessage(inv) ==
    IF Resolve(inv.name) = "none" THEN NotFoundMessage(inv.name)
    ELSE IF inv.ran = "none" THEN TypeErrorMessage(inv.name)
    ELSE IF inv.outcome = "raises" THEN HTTPErrorMessage
    ELSE None

\* C4: when a dispatch raises (the client method fails, or rejects the
\* arguments), the loop goes on or returns a value, and the tool message
\* appended for the call deserializes to an object whose "error" key holds
\* the exception's message.
C4_DispatchErrorBecomesToolMessage ==
    \A k \in DOMAIN invocations :
        LET inv == invocations[k] IN
        RaisedMessage(inv) # None =>
            /\ Len(messages) > inv.at
            /\ messages[inv.at + 1].role = "tool"
            /\ messages[inv.at + 1].tool_call_id = inv.tool_call_id
            /\ HasErrorKey(messages[inv.at + 1].content)
            /\ json_loads(messages[inv.at + 1].content).value.error
                    = RaisedMessage(inv)
            /\ pc \in {"tools", "call", "done"}
            /\ pc = "done" => result # None

\* A client method raised, another rejected its arguments, and the loop
\* still returned the LLM's final text.
C4_Witness ==
    /\ pc = "done"
    /\ result \in Texts
    /\ \E k \in DOMAIN invocations :
          invocations[k].ran # "none" /\ invocations[k].outcome = "raises"
    /\ \E k \in DOMAIN invocations :
          Resolve(invocations[k].name) # "none" /\ invocations[k].ran = "none"

\* An upper bound of the number of steps left before the loop returns.
Measure ==
    CASE pc = "idle" -> (max_depth + 1) * (MaxBatch + 1) + 2
      [] pc = "call" -> (max_depth + 1 - depth) * (MaxBatch + 1) + 1
      [] pc = "tools" ->
            (max_depth - depth) * (MaxBatch + 1) + 2 + Len(tool_calls) - idx
      [] OTHER -> 0

\* C5: the processing of one email terminates: every step lowers a bound of
\* the remaining steps that is never negative, and a step is possible until
\* the loop has returned.
C5_Terminates ==
    /\ [](Measure >= 0)
    /\ [](pc # "done" => ENABLED Next)
    /\ [][Measure' < Measure]_vars

\* The LLM asked for tools at every turn, and the loop has returned.
C5_Witness ==
    /\ pc = "done"
    /\ Len(llm_log) = max_depth + 1
    /\ \A i \in DOMAIN llm_log : llm_log[i].kind = "tool_calls"

\* C6 as stated: every tool message comes right after the assistant message
\* whose tool call it answers, and has that call's identifier.
C6_ToolMessageRightAfterAssistant ==
    \A i \in ToolMessages :
        /\ i > 1
        /\ messages[i - 1].role = "assistant"
        /\ \E j \in DOMAIN messages[i - 1].tool_calls :
              messages[i - 1].tool_calls[j].id = messages[i].tool_call_id

\* C6 as amended: every tool message follows the assistant message whose
\* tool call it answers with only the tool messages of that assistant
\* message's earlier calls in between: the k-th message after the assistant
\* message is the tool message of its k-th call, with that call's identifier
\* and name.
C6_ToolMessageFollowsItsAssistant ==
    \A i \in ToolMessages :
        LET a == LastAssistant(i) IN
        /\ a > 0
        /\ i - a <= Len(messages[a].tool_calls)
        /\ messages[i].tool_call_id = messages[a].tool_calls[i - a].id
        /\ messages[i].name = messages[a].tool_calls[i - a].name

\* An assistant message with two tool calls of different names, both answered.
C6_Witness ==
    \E a \in DOMAIN messages :
        /\ messages[a].role = "assistant"
        /\ Len(messages[a].tool_calls) = 2
        /\ messages[a].tool_calls[1].name # messages[a].tool_calls[2].name
        /\ Len(messages) >= a + 2
        /\ messages[a + 2].role = "tool"

\* C7: the calls of a turn are dispatched in the order of the response, each
\* after the tool message of the one before it was appended, and each is
\* answered by the next message of the conversation.
C7_DispatchedAndAnsweredInOrder ==
    \A k \in DOMAIN invocations :
        LET inv == invocations[k]
            a == LastAssistant(inv.at)
            j == inv.at - a + 1
        IN
        /\ a > 0
        /\ j <= Len(messages[a].tool_calls)
        /\ \A b \in (a + 1)..inv.at : messages[b].role = "tool"
        /\ messages[a].tool_calls[j].id = inv.tool_call_id
        /\ messages[a].tool_calls[j].name = inv.name
        /\ Len(messages) > inv.at
        /\ messages[inv.at + 1].role = "tool"
        /\ messages[inv.at + 1].tool_call_id = inv.tool_call_id
        /\ messages[inv.at + 1].name = inv.name
        /\ k > 1 => invocations[k - 1].at < inv.at

\* Two calls of different names in one turn, both dispatched.
C7_Witness ==
    \E k \in DOMAIN invocations :
        /\ k > 1
        /\ invocations[k].at = invocations[k - 1].at + 1
        /\ invocations[k].name # invocations[k - 1].name

\* An item of a request's message list carries the message m.
Stands(item, m) ==
    CASE item.form = "msg" -> item.msg = m
      [] item.form = "str" -> m.role \in {"user", "assistant"} /\ item.text = m.content
      [] item.form = "FunctionCall" ->
            /\ m.role = "assistant"
            /\ \E j \in DOMAIN m.tool_calls :
                  /\ m.tool_calls[j].name = item.name
                  /\ m.tool_calls[j].arguments = json_dumps(item.args)
      [] OTHER ->
            /\ m.role = "tool"
            /\ m.name = item.name
            /\ m.content = json_dumps(item.response)

\* The request carries the system instruction.
CarriesSystem(sub) ==
    \/ sub.system_instruction = SystemContent
    \/ \E j \in DOMAIN sub.messages :
          sub.messages[j].form = "msg" /\ sub.messages[j].msg.role = "system"

\* C8: every request carries the system instruction and every other message
\* of the conversation as it stands, in order, with the tool schema, and the
\* schema is the same in all requests.
C8_SubmissionCarriesConversation ==
    \A i \in DOMAIN submissions :
        LET sub == submissions[i] IN
        /\ CarriesSystem(sub)
        /\ \A j \in 2..sub.seen :
              \E q \in DOMAIN sub.messages : Stands(sub.messages[q], messages[j])
        /\ \A j1, j2 \in 2..sub.seen :
              j1 < j2 =>
                \E q1, q2 \in DOMAIN sub.messages :
                    /\ q1 < q2
                    /\ Stands(sub.messages[q1], messages[j1])
                    /\ Stands(sub.messages[q2], messages[j2])
        /\ sub.tools = tools_schema(provider)
        /\ sub.tools = submissions[1].tools

\* The responses so far are n responses with one tool call each, then text.
SingleCallTurnsThenText(n) ==
    /\ Len(llm_log) = n + 1
    /\ \A i \in 1..n :
          llm_log[i].kind = "tool_calls" /\ Len(llm_log[i].calls) = 1
    /\ llm_log[n + 1].kind = "text"

\* C9 as stated: n single-call turns and a final text give n + 1 requests,
\* n dispatches and 2 + 2n + 1 messages.
C9_FinalAssistantMessageCounted ==
    \A n \in 0..max_depth :
        SingleCallTurnsThenText(n) =>
            /\ Len(submissions) = n + 1
            /\ Len(invocations) = n
            /\ Len(messages) = 2 + 2 * n + 1

\* C9 as amended: n single-call turns and a final text give n + 1 requests,
\* n dispatches and 2 + 2n messages: the final answer is returned, not
\* appended.
C9_SingleCallTurnsCounts ==
    \A n \in 0..max_depth :
        SingleCallTurnsThenText(n) =>
            /\ pc = "done"
            /\ Len(submissions) = n + 1
            /\ Len(invocations) = n
            /\ Len(messages) = 2 + 2 * n
            /\ \A i \in 1..n :
                  /\ messages[2 * i + 1].role = "assistant"
                  /\ messages[2 * i + 2].role = "tool"

\* Two single-call turns, then the final text.
C9_Witness == SingleCallTurnsThenText(2) /\ pc = "done"

C11_ToolErrorNeverEndsProcessing ==
    pc = "done" =>
        /\ idx > Len(tool_calls)
        /\ result # ErrorText(UnpackErrorMessage)

\* What the caller of the loop can read off the returned string.
ReportedOutcome(text) ==
    IF text = StoppedText THEN "max-iterations"
    ELSE IF text \in {ErrorText(m) : m \in LLMFailures} THEN "transport-error"
    ELSE IF text \in Texts THEN "text"
    ELSE "other"

\* How the loop came to return.
ActualOutcome ==
    IF llm_log # <<>> /\ llm_log[Len(llm_log)].kind = "text" THEN "text"
    ELSE IF llm_log # <<>> /\ llm_log[Len(llm_log)].kind = "raise"
         THEN "transport-error"
    ELSE IF DepthExceeded(depth) /\ idx > Len(tool_calls) THEN "max-iterations"
    ELSE "other"

\* C12: the loop ends in one of three outcomes its caller can tell apart:
\* the final text, max-iterations-exhausted, or a transport error.
C12_ThreeOutcomes ==
    pc = "done" =>
        /\ ActualOutcome \in {"text", "max-iterations", "transport-error"}
        /\ ReportedOutcome(result) = ActualOutcome

\* s is an initial part of t.
IsPrefix(s, t) == Len(s) <= Len(t) /\ SubSeq(t, 1, Len(s)) = s

\* C17: the conversation of an email only grows at its end, its first
\* message is the system instruction and its second the user message built
\* from the email.
C17_ConversationAppendOnly ==
    /\ [](pc # "idle" =>
            /\ Len(messages) >= 2
            /\ messages[1] = SystemMessage
            /\ messages[2] = UserMessage(email))
    /\ [][IsPrefix(messages, messages')]_vars

\* Two turns with tool calls were answered and the loop returned.
C17_Witness ==
    /\ pc = "done"
    /\ Len(messages) >= 6
    /\ Cardinality({i \in DOMAIN messages : messages[i].role = "assistant"}) >= 2

\* C13: an LLM call that fails is not called again: the failed response is
\* the last of its email, one request was made per response, the email ends
\* with the error text, which is what run() logs for it, and when run()
\* finishes every email of the list was handed to process_single_email, in
\* order.
C13_LLMFailureNotRetried ==
    /\ \A i \in DOMAIN llm_log :
          llm_log[i].kind = "raise" =>
              /\ i = Len(llm_log)
              /\ Len(submissions) = i
              /\ pc \in {"done", "email", "finished"}
              /\ result = ErrorText(llm_log[i].text)
    /\ \A i \in DOMAIN outcomes :
          outcomes[i].last = "raise" =>
              outcomes[i].comment \in {ErrorText(m) : m \in LLMFailures}
    /\ pc = "finished" =>
          /\ Len(outcomes) = Len(unread_emails)
          /\ \A i \in DOMAIN outcomes : outcomes[i].email = unread_emails[i]

\* The LLM call of the first of two emails failed and the second email got
\* its final text.
C13_Witness ==
    /\ pc = "finished"
    /\ Len(outcomes) = 2
    /\ outcomes[1].last = "raise"
    /\ outcomes[1].comment = ErrorText(TransportErrorMessage)
    /\ outcomes[1].submissions = 1
    /\ outcomes[2].comment \in Texts

\* C16: every email whose loop ended with a final text is marked read in the
\* mailbox once process_single_email has returned for it.
C16_TextEndedEmailsMarked ==
    \A i \in DOMAIN outcomes :
        outcomes[i].last = "text" => outcomes[i].email \in marked

\* C18: call_tool with a name neither client exposes returns the error
\* result saying the tool was not found and runs no operation on either
\* client.
C18_UnknownToolIsNotFoundError ==
    \A i \in DOMAIN dispatches :
        LET d == dispatches[i] IN
        (~hasattr(TwentyCRMAPI, d.tool_name) /\ ~hasattr(MSGraphClient, d.tool_name))
            => /\ d.output = JError(NotFoundMessage(d.tool_name))
               /\ d.ran = "none"
               /\ d.mail_after = d.mail_before

\* An unknown name was dispatched after a call that ran a mail operation.
C18_Witness ==
    /\ Len(dispatches) = 2
    /\ dispatches[1].ran = "mail"
    /\ dispatches[2].tool_name = "no_such_tool"

\* C19: a name both clients expose is served by the CRM client's operation
\* and never by the mail client's; the mail client's operation runs only for
\* a name the CRM client does not have.
C19_CRMClientAskedFirst ==
    \A i \in DOMAIN dispatches :
        LET d == dispatches[i] IN
        /\ hasattr(TwentyCRMAPI, d.tool_name) =>
              /\ d.ran # "mail"
              /\ d.mail_after = d.mail_before
              /\ Binds(TwentyCRMAPI[d.tool_name], d.kwargs) => d.ran = "crm"
        /\ d.ran = "mail" => ~hasattr(TwentyCRMAPI, d.tool_name)

\* A name both clients expose was dispatched with the keywords of the CRM
\* client's operation and with those of the mail client's.
C19_Witness ==
    /\ Len(dispatches) = 2
    /\ dispatches[1].tool_name = "__init__"
    /\ dispatches[1].ran = "crm"
    /\ dispatches[2].tool_name = "__init__"
    /\ dispatches[2].kwargs = JDict({"client_id", "authority", "scope"})
    /\ dispatches[2].output = JError(TypeErrorMessage("__init__"))

\* C20: the token is acquired by the first operation that finds the cache
\* empty and then reused: after an acquisition that succeeded every
\* operation uses the cached token, and until one succeeded the cache is
\* empty and every operation attempts an acquisition.
C20_TokenAcquiredOnceThenReused ==
    /\ \A i \in DOMAIN mail_log :
          /\ mail_log[i].acquire = "acquired" =>
                \A j \in DOMAIN mail_log : j > i => mail_log[j].acquire = "cached"
          /\ (\A j \in 1..(i - 1) : mail_log[j].acquire # "acquired") =>
                mail_log[i].acquire # "cached"
          /\ mail_log[i].acquire = "failed" => mail_log[i].raised
    /\ access_token # None <=>
          \E i \in DOMAIN mail_log : mail_log[i].acquire = "acquired"

\* An acquisition failed, the next operation acquired the token and a
\* mark_email_processed then reused it.
C20_Witness ==
    /\ Len(mail_log) >= 3
    /\ mail_log[1].acquire = "failed"
    /\ mail_log[2].acquire = "acquired"
    /\ mail_log[3].acquire = "cached"
    /\ mail_log[3].op = "mark_email_processed"
    /\ access_token = AccessToken

\* The number of rate-limit failures in a row the responses so far end with.
TrailingRateLimits ==
    Cardinality({i \in DOMAIN llm_log :
        \A j \in i..Len(llm_log) :
            llm_log[j].kind = "raise" /\ llm_log[j].text = RateLimitErrorMessage})

\* C14: a request that failed with a rate-limit error is made again: the
\* loop does not return on the first rate-limit failure of a request.
C14_RateLimitedRequestMadeAgain ==
    (pc = "done" /\ TrailingRateLimits >= 1) => TrailingRateLimits >= 2

\* C15: the loop gives a rate-limit failure up to its caller only when
\* max_retries attempts in a row failed with a rate-limit error, and what the
\* caller gets then differs from what it gets for another transport error.
C15_RateLimitReportedAfterMaxRetries ==
    (pc = "done" /\ TrailingRateLimits >= 1) =>
        /\ TrailingRateLimits = max_retries
        /\ result # ErrorText(TransportErrorMessage)

\* C29: within one conversation the tool messages carry pairwise distinct
\* tool_call_ids, each the identifier of one tool call of an assistant
\* message.
C29_ToolCallIdsDistinct ==
    \A i, j \in ToolMessages :
        i # j => messages[i].tool_call_id # messages[j].tool_call_id

\* C28: call_tool runs no client method for a name the tool schema does not
\* declare, and answers such a name with an error result.
C28_OnlySchemaOperationsRun ==
    \A i \in DOMAIN dispatches :
        LET d == dispatches[i] IN
        d.tool_name \notin SchemaNames =>
            /\ d.ran = "none"
            /\ d.output.t = "dict"
            /\ "error" \in d.output.keys

\* The mark_email_processed operations run on the mail client for an email,
\* raised or not.
MarkAttempts(email_id) ==
    {i \in DOMAIN mail_log :
        mail_log[i].op = "mark_email_processed" /\ mail_log[i].email_id = email_id}

\* C23: once process_single_email has returned for an email whose LLM
\* interaction ended in an error, marking that email as read was attempted
\* on the mail client.
C23_FailedEmailMarkAttempted ==
    \A i \in DOMAIN outcomes :
        outcomes[i].last = "raise" => MarkAttempts(outcomes[i].email) # {}

\* C30: when run() has ended over a list of unread emails, every email of
\* the list was handed to process_single_email.
C30_EveryEmailHandedOver ==
    (pc \in {"finished", "crashed"} /\ unread_emails # <<>>) =>
        pos >= Len(unread_emails)

\* No two items of a list share an id.
NoDuplicateIds(items) ==
    \A i, j \in DOMAIN items : i # j => items[i].id # items[j].id

\* C21: the review queue never holds two items with one id nor an item
\* without id, a run of main() keeps the items already queued as they are
\* and in place, and a run over the emails the run before fetched leaves
\* the queue as it is.
C21_QueueFillIdempotent ==
    /\ [](NoDuplicateIds(review_file) /\ None \notin ItemIds(review_file))
    /\ [][/\ IsPrefix(review_file, review_file')
          /\ fetched' = fetched => review_file' = review_file]_vars

\* The last run fetched one new email twice and queued it once.
C21_Witness ==
    /\ Len(fetched) = 2
    /\ fetched[1].id = fetched[2].id
    /\ fetched[1].id # None
    /\ fetched[1].subject # fetched[2].subject
    /\ Len(review_file) = 2
    /\ review_file[2] = ReviewItem(fetched[1])

\* The ids a step takes out of the persisted review queue.
Removed == ItemIds(review_file) \ ItemIds(review_file')

\* The ids a step adds to the persisted archive as approved.
NewlyApproved ==
    {archive_file'[i].id : i \in {j \in DOMAIN archive_file' :
        /\ j > Len(archive_file)
        /\ archive_file'[j].review_status = "Approved"}}

\* C26: a step that pushes an item to the CRM takes it out of the persisted
\* queue or archives it as approved only when update_crm returned, and
\* leaves both files as they are when update_crm raised; every item
\* archived as approved was pushed with success.
C26_ApproveOnlyAfterPush ==
    /\ [][pushes' # pushes =>
            LET push == pushes'[Len(pushes')] IN
            /\ push.outcome = "raises" =>
                  review_file' = review_file /\ archive_file' = archive_file
            /\ Removed \subseteq {push.id}
            /\ NewlyApproved \subseteq {push.id}
            /\ (Removed # {} \/ NewlyApproved # {}) => push.outcome = "returns"]_vars
    /\ [](\A i \in DOMAIN archive_file :
            archive_file[i].review_status = "Approved" =>
                \E k \in DOMAIN pushes :
                    /\ pushes[k].id = archive_file[i].id
                    /\ pushes[k].outcome = "returns")

\* A push of an item raised, a later push of it returned and the item moved
\* to the archive.
C26_Witness ==
    /\ Len(pushes) >= 2
    /\ pushes[1].outcome = "raises"
    /\ pushes[2].outcome = "returns"
    /\ pushes[2].id = pushes[1].id
    /\ pushes[1].id \notin ItemIds(review_file)
    /\ \E i \in DOMAIN archive_file :
          /\ archive_file[i].id = pushes[1].id
          /\ archive_file[i].review_status = "Approved"

\* C27: every item that was in the review queue is once in the persisted
\* queue or once in the persisted archive, and not in both.
C27_ItemInExactlyOneFile ==
    \A id \in queued_ids :
        Cardinality({i \in DOMAIN review_file : review_file[i].id = id}) +
        Cardinality({i \in DOMAIN archive_file : archive_file[i].id = id}) = 1

\* C22: whenever the CRM answers get_person_by_email with a 4xx or 5xx
\* status, the call raises an HTTPError that carries that status; it returns
\* neither an empty people list nor an error dictionary.
C22_HttpErrorPropagates ==
    \A i \in DOMAIN crm_log :
        (crm_log[i].response.kind = "http" /\ crm_log[i].response.status >= 400)
        => /\ crm_log[i].outcome.kind = "raises"
           /\ crm_log[i].outcome.exception = "HTTPError"
           /\ crm_log[i].outcome.status_code = crm_log[i].response.status

\* A 404 and a 500 were answered and both were raised as HTTPError.
C22_Witness ==
    /\ \E i \in DOMAIN crm_log :
          /\ crm_log[i].response.kind = "http"
          /\ crm_log[i].response.status = 404
          /\ crm_log[i].outcome = Raises("HTTPError", 404)
    /\ \E i \in DOMAIN crm_log :
          /\ crm_log[i].response.kind = "http"
          /\ crm_log[i].response.status = 500
          /\ crm_log[i].outcome = Raises("HTTPError", 500)

\* C25: a call of main.py's call_tool with a name declared in the schema and
\* keywords that conform to the declared schema runs the client method and
\* does not return the "not found" error.
C25_DeclaredToolsReachable ==
    \A i \in DOMAIN dispatches :
        LET d == dispatches[i] IN
        (/\ d.tool_name \in DOMAIN main_get_tools_schema
         /\ d.kwargs \in Conforming(d.tool_name))
        => /\ d.ran
           /\ d.output # ErrorResult(NotFoundMessage(d.tool_name))

\* The request was sent after the model had been given a tool result.
SeesToolResult(submission) ==
    \E k \in DOMAIN submission.messages : submission.messages[k].role = "tool"

\* The texts _call_ai_with_tools of main.py returns from its except clause.
MainErrorTexts ==
    {ErrorText(m) : m \in LLMFailures \cup
                          {UnpackErrorMessage, JSONDecodeErrorMessage}}

\* C24: in main.py's loop a request sent after tool results still offers
\* the tools, and when the loop has returned without an exception the last
\* response was text and every tool call any response asked for has been
\* answered with a tool message.
C24_MainLoopIterative ==
    /\ \A i \in DOMAIN submissions :
          SeesToolResult(submissions[i]) => submissions[i].tools # None
    /\ (pc = "done" /\ result \notin MainErrorTexts) =>
          /\ llm_log[Len(llm_log)].kind = "text"
          /\ \A i \in DOMAIN llm_log : \A k \in DOMAIN llm_log[i].calls :
                \E m \in DOMAIN messages :
                    /\ messages[m].role = "tool"
                    /\ messages[m].tool_call_id = llm_log[i].calls[k].id

====
